---- MODULE Spec2Model ----
(***************************************************************************)
(* Model of the food ordering application (src/app.py): the relational     *)
(* store (User, Order, OrderItem rows, a fixed MenuItem table), the        *)
(* per-browser session (user_id, username, is_admin, cart) and the request *)
(* handlers that change them.                                              *)
(*                                                                         *)
(* Each browser session has at most one request in flight.  A handler that *)
(* talks to the store more than once (register: two existence queries and  *)
(* a commit; checkout: two commits) is split at those points, so requests  *)
(* of other sessions interleave there exactly as separate worker threads   *)
(* or processes of the application would.                                  *)
(*                                                                         *)
(* Prices are Float columns in the source; they are modelled as integer    *)
(* amounts (cents).  Python's 0-based cart index i is position i+1 here.   *)
(***************************************************************************)
EXTENDS Integers, Sequences, FiniteSets, TLC

\* ------------------------------------------------------------------ bounds
NumSessions == 1
NumRegistrations == 2
MaxOrders == 2
MaxQty == 2
MaxIndex == 2

Sessions == 1..NumSessions
Registrations == 1..NumRegistrations

\* ------------------------------------------------------------- input sets
Usernames == {"admin", "alice", "bob"}
Emails == {"admin@example.com", "alice@example.com", "bob@example.com"}
Passwords == {"admin123", "pw"}
NoneValue == "<None>"
StatusInputs == {"Pending", "Completed", "Cancelled", "Shipped", NoneValue}
ActionInputs == {"increase", "decrease", "remove", "double", NoneValue}

\* The MenuItem table: row id -> price.  Ids outside its domain do not exist.
MenuItem == <<500, 350>>
ItemIds == 1..(Len(MenuItem) + 1)
OrderIds == 1..(MaxOrders + 1)

VARIABLES users, orders, order_items, session, pc, req, reg, response

vars == <<users, orders, order_items, session, pc, req, reg, response>>
db == <<users, orders, order_items>>

\* ------------------------------------------------------------ pure helpers
\* werkzeug's generate_password_hash / check_password_hash: the stored value
\* is a tagged digest, never the password itself.
generate_password_hash(password) == [method |-> "sha256", digest |-> password]

check_password_hash(hash, password) == hash = generate_password_hash(password)

RECURSIVE CartTotalPricesOnly(_)
\* CartTotal with the quantity dropped from each term.
CartTotalPricesOnly(cart) ==
    IF cart = <<>> THEN 0
    ELSE Head(cart).price + CartTotalPricesOnly(Tail(cart))

RECURSIVE CartTotal(_)
\* sum(item['price'] * item['quantity'] for item in cart)
CartTotal(cart) ==
    IF cart = <<>> THEN 0
    ELSE Head(cart).price * Head(cart).quantity + CartTotal(Tail(cart))

\* del cart[index] (index is 1-based here)
DelAt(cart, i) == [k \in 1..(Len(cart) - 1) |-> IF k < i THEN cart[k] ELSE cart[k + 1]]

\* User.query.filter_by(username=...).first() / filter_by(email=...).first():
\* the position of the first matching row, 0 when there is none.
FirstByUsername(tbl, username) ==
    IF \E i \in DOMAIN tbl : tbl[i].username = username
    THEN CHOOSE i \in DOMAIN tbl :
            /\ tbl[i].username = username
            /\ \A j \in DOMAIN tbl : tbl[j].username = username => i <= j
    ELSE 0

FirstByEmail(tbl, email) ==
    IF \E i \in DOMAIN tbl : tbl[i].email = email
    THEN CHOOSE i \in DOMAIN tbl :
            /\ tbl[i].email = email
            /\ \A j \in DOMAIN tbl : tbl[j].email = email => i <= j
    ELSE 0

\* The UNIQUE constraints of the user table (username, email), checked by the
\* store when a row is inserted.
UserUniqueOk(tbl, row) ==
    \A i \in DOMAIN tbl : tbl[i].username # row.username /\ tbl[i].email # row.email

\* create_tables: seed the admin account when no user is named admin.
create_tables(tbl) ==
    IF FirstByUsername(tbl, "admin") = 0
    THEN Append(tbl, [username |-> "admin", email |-> "admin@example.com",
                      password |-> generate_password_hash("admin123"),
                      is_admin |-> TRUE])
    ELSE tbl

NoSession == [user_id |-> 0, username |-> "", is_admin |-> FALSE,
              has_cart |-> FALSE, cart |-> <<>>]

\* A checkout request's locals between its commits; a register request's
\* position and form fields.
NoReq == [order_id |-> 0]
NoReg == [pc |-> "idle", username |-> "", email |-> "", password |-> ""]

\* The last response sent: status code, endpoint redirected to or template
\* rendered, the order it names, the message flashed.
Resp(code, view, order_id, flash) ==
    [code |-> code, view |-> view, order_id |-> order_id, flash |-> flash]

\* login_required / admin_required: TRUE when the wrapped handler runs.
login_required(s) == session[s].user_id # 0

admin_required(s) == session[s].user_id # 0 /\ users[session[s].user_id].is_admin

\* ---------------------------------------------------------- initial states
\* The store after create_tables has run on an empty database; no browser
\* has a session yet.
InitBoot ==
    /\ users = create_tables(<<>>)
    /\ orders = <<>>
    /\ order_items = <<>>
    /\ session = [s \in Sessions |-> NoSession]
    /\ pc = [s \in Sessions |-> "idle"]
    /\ req = [s \in Sessions |-> NoReq]
    /\ reg = [r \in Registrations |-> NoReg]
    /\ response = Resp(0, "", 0, "")

\* The session login leaves on a fresh browser for the user in row user_id.
LoggedIn(tbl, user_id) ==
    [NoSession EXCEPT !.user_id = user_id, !.username = tbl[user_id].username,
                      !.is_admin = tbl[user_id].is_admin]

\* The user table after alice has registered (one register request run from
\* InitBoot).
ShopUsers ==
    Append(create_tables(<<>>),
           [username |-> "alice", email |-> "alice@example.com",
            password |-> generate_password_hash("pw"), is_admin |-> FALSE])

\* The ordering workflow starts from a store with a customer besides the
\* admin and one order alice placed earlier (one menu item 1, checked out
\* in full).
InitShop ==
    /\ users = ShopUsers
    /\ orders = <<[user_id |-> 2, total |-> MenuItem[1], status |-> "Pending"]>>
    /\ order_items = <<[order_id |-> 1, menu_item_id |-> 1, quantity |-> 1,
                        price |-> MenuItem[1]]>>
    /\ session = [s \in Sessions |-> NoSession]
    /\ pc = [s \in Sessions |-> "idle"]
    /\ req = [s \in Sessions |-> NoReq]
    /\ reg = [r \in Registrations |-> NoReg]
    /\ response = Resp(0, "", 0, "")

\* The cart handlers start from browsers that are logged out or logged in
\* (as the admin or as alice) and have no cart yet.
InitCart ==
    /\ users = ShopUsers
    /\ orders = <<>>
    /\ order_items = <<>>
    /\ session \in [Sessions -> {NoSession} \cup {LoggedIn(ShopUsers, u) : u \in DOMAIN ShopUsers}]
    /\ pc = [s \in Sessions |-> "idle"]
    /\ req = [s \in Sessions |-> NoReq]
    /\ reg = [r \in Registrations |-> NoReg]
    /\ response = Resp(0, "", 0, "")

\* ------------------------------------------------------------- register
\* POST /register, up to the username existence query.
register_check_username(r, username, email, password) ==
    /\ reg[r].pc = "idle"
    /\ IF FirstByUsername(users, username) # 0
       THEN /\ response' = Resp(302, "register", 0, "Username already taken")
            /\ UNCHANGED reg
       ELSE /\ reg' = [reg EXCEPT ![r] = [pc |-> "check_email", username |-> username,
                                          email |-> email, password |-> password]]
            /\ UNCHANGED response
    /\ UNCHANGED <<db, session, pc, req>>

\* The email existence query.
register_check_email(r) ==
    /\ reg[r].pc = "check_email"
    /\ IF FirstByEmail(users, reg[r].email) # 0
       THEN /\ response' = Resp(302, "register", 0, "Email already registered")
            /\ reg' = [reg EXCEPT ![r] = NoReg]
       ELSE /\ reg' = [reg EXCEPT ![r].pc = "insert"]
            /\ UNCHANGED response
    /\ UNCHANGED <<db, session, pc, req>>

\* UsersAfterInsert on a table created without the UNIQUE constraints.
UsersAfterInsertUnconstrained(tbl, new_user) == Append(tbl, new_user)

\* The table after db.session.add(new_user); db.session.commit(): the store
\* refuses a row that breaks a UNIQUE constraint (IntegrityError) and the
\* table stays as it was.
UsersAfterInsert(tbl, new_user) ==
    IF UserUniqueOk(tbl, new_user) THEN Append(tbl, new_user) ELSE tbl

\* The insert and commit, and the response.
register_insert(r) ==
    /\ reg[r].pc = "insert"
    /\ LET new_user == [username |-> reg[r].username, email |-> reg[r].email,
                        password |-> generate_password_hash(reg[r].password),
                        is_admin |-> FALSE]
       IN /\ users' = UsersAfterInsert(users, new_user)
          /\ response' = IF UserUniqueOk(users, new_user)
                         THEN Resp(302, "login", 0, "Registration successful. Please login.")
                         ELSE Resp(500, "IntegrityError", 0, "")
    /\ reg' = [reg EXCEPT ![r] = NoReg]
    /\ UNCHANGED <<orders, order_items, session, pc, req>>

\* ---------------------------------------------------------- login / logout
\* POST /login
login(s, username, password) ==
    /\ pc[s] = "idle"
    /\ LET user == FirstByUsername(users, username)
           ok == user # 0 /\ check_password_hash(users[user].password, password)
       IN IF ~ok
          THEN /\ response' = Resp(302, "login", 0, "Invalid username or password")
               /\ UNCHANGED session
          ELSE /\ session' = [session EXCEPT ![s].user_id = user,
                                             ![s].username = users[user].username,
                                             ![s].is_admin = users[user].is_admin]
               /\ response' = Resp(302,
                                   IF users[user].is_admin THEN "admin_dashboard"
                                   ELSE "customer_menu", 0, "")
    /\ UNCHANGED <<db, pc, req, reg>>

\* GET /logout
logout(s) ==
    /\ pc[s] = "idle"
    /\ session' = [session EXCEPT ![s] = NoSession]
    /\ response' = Resp(302, "index", 0, "You have been logged out.")
    /\ UNCHANGED <<db, pc, req, reg>>

\* ------------------------------------------------------------------- cart
\* The position of the first cart entry for an item id, 0 when there is none.
CartPos(cart, item_id) ==
    IF \E i \in DOMAIN cart : cart[i].id = item_id
    THEN CHOOSE i \in DOMAIN cart :
            /\ cart[i].id = item_id
            /\ \A j \in DOMAIN cart : cart[j].id = item_id => i <= j
    ELSE 0

\* CartAfterAdd without the scan for an entry of the same item.
CartAfterAddAlwaysAppend(cart, item_id, user_id) ==
    Append(cart, [id |-> item_id, price |-> MenuItem[item_id],
                  quantity |-> 1, added_by |-> user_id])

\* The cart add_to_cart leaves for an existing item.  An entry carries the
\* item's id, price and quantity (name and image are copied the same way as
\* the price) and, as a history annotation that no handler reads, the
\* session user_id of the request that appended it.
CartAfterAdd(cart, item_id, user_id) ==
    LET i == CartPos(cart, item_id)
    IN IF i # 0
       THEN [cart EXCEPT ![i].quantity = @ + 1]
       ELSE Append(cart, [id |-> item_id, price |-> MenuItem[item_id],
                          quantity |-> 1, added_by |-> user_id])

\* POST /add_to_cart/<item_id>
add_to_cart(s, item_id) ==
    /\ pc[s] = "idle"
    /\ IF ~login_required(s)
       THEN /\ response' = Resp(302, "login", 0, "Please log in to access this page.")
            /\ UNCHANGED session
       ELSE IF item_id \notin DOMAIN MenuItem
       THEN \* session['cart'] = [] has already run when get_or_404 aborts
            /\ session' = [session EXCEPT ![s].has_cart = TRUE]
            /\ response' = Resp(404, "", 0, "")
       ELSE LET cart == CartAfterAdd(session[s].cart, item_id, session[s].user_id)
            IN /\ \A i \in DOMAIN cart : cart[i].quantity <= MaxQty
               /\ session' = [session EXCEPT ![s].has_cart = TRUE, ![s].cart = cart]
               /\ response' = Resp(302, "customer_menu", 0,
                                   IF CartPos(session[s].cart, item_id) # 0
                                   THEN "Added another item to your cart"
                                   ELSE "Added item to your cart")
    /\ UNCHANGED <<db, pc, req, reg>>

\* CartAfterUpdate with the decrease branch lacking its quantity <= 0 test.
CartAfterUpdateKeepsZero(cart, i, action) ==
    IF action = "increase" THEN [cart EXCEPT ![i].quantity = @ + 1]
    ELSE IF action = "decrease" THEN [cart EXCEPT ![i].quantity = @ - 1]
    ELSE IF action = "remove" THEN DelAt(cart, i)
    ELSE cart

\* The cart update_cart leaves for an index inside the cart (1-based).
CartAfterUpdate(cart, i, action) ==
    IF action = "increase" THEN [cart EXCEPT ![i].quantity = @ + 1]
    ELSE IF action = "decrease"
         THEN IF cart[i].quantity - 1 <= 0
              THEN DelAt(cart, i)
              ELSE [cart EXCEPT ![i].quantity = @ - 1]
    ELSE IF action = "remove" THEN DelAt(cart, i)
    ELSE cart

\* POST /update_cart/<index>
update_cart(s, index, action) ==
    /\ pc[s] = "idle"
    /\ IF ~login_required(s)
       THEN /\ response' = Resp(302, "login", 0, "Please log in to access this page.")
            /\ UNCHANGED session
       ELSE IF 0 <= index /\ index < Len(session[s].cart)
       THEN LET cart == CartAfterUpdate(session[s].cart, index + 1, action)
            IN /\ \A i \in DOMAIN cart : cart[i].quantity <= MaxQty
               /\ session' = [session EXCEPT ![s].cart = cart]
               /\ response' = Resp(302, "view_cart", 0, "Cart updated")
       ELSE /\ response' = Resp(302, "view_cart", 0, "")
            /\ UNCHANGED session
    /\ UNCHANGED <<db, pc, req, reg>>

\* --------------------------------------------------------------- checkout
\* One OrderItem row per cart entry, in cart order.
OrderItemsOf(cart, order_id) ==
    [k \in DOMAIN cart |-> [order_id |-> order_id, menu_item_id |-> cart[k].id,
                            quantity |-> cart[k].quantity, price |-> cart[k].price]]

\* CartIsEmpty that lets every cart through.
CartIsEmptyNever(cart) == FALSE

\* `not cart`: the session holds no cart or an empty one.
CartIsEmpty(cart) == cart = <<>>

\* POST /checkout, up to the first commit (the Order row).
checkout_order(s) ==
    /\ pc[s] = "idle"
    /\ IF ~login_required(s)
       THEN /\ response' = Resp(302, "login", 0, "Please log in to access this page.")
            /\ UNCHANGED <<orders, pc, req>>
       ELSE IF CartIsEmpty(session[s].cart)
       THEN /\ response' = Resp(302, "customer_menu", 0, "Your cart is empty")
            /\ UNCHANGED <<orders, pc, req>>
       ELSE /\ Len(orders) < MaxOrders
            /\ orders' = Append(orders, [user_id |-> session[s].user_id,
                                         total |-> CartTotal(session[s].cart),
                                         status |-> "Pending"])
            /\ pc' = [pc EXCEPT ![s] = "checkout_items"]
            /\ req' = [req EXCEPT ![s] = [order_id |-> Len(orders) + 1]]
            /\ UNCHANGED response
    /\ UNCHANGED <<users, order_items, session, reg>>

\* The second commit (the OrderItem rows), then session.pop('cart').
checkout_items(s) ==
    /\ pc[s] = "checkout_items"
    /\ order_items' = order_items \o OrderItemsOf(session[s].cart, req[s].order_id)
    /\ session' = [session EXCEPT ![s].has_cart = FALSE, ![s].cart = <<>>]
    /\ response' = Resp(302, "order_confirmation", req[s].order_id,
                        "Order placed successfully!")
    /\ pc' = [pc EXCEPT ![s] = "idle"]
    /\ req' = [req EXCEPT ![s] = NoReq]
    /\ UNCHANGED <<users, orders, reg>>

\* The request dies between the two commits (the worker is killed, or the
\* second commit raises): the Order row stays, no OrderItem row is written and
\* the session is not saved.
checkout_fail(s) ==
    /\ pc[s] = "checkout_items"
    /\ response' = Resp(500, "", 0, "")
    /\ pc' = [pc EXCEPT ![s] = "idle"]
    /\ req' = [req EXCEPT ![s] = NoReq]
    /\ UNCHANGED <<db, session, reg>>

\* ----------------------------------------------------------------- orders
\* OwnsOrder that lets every logged-in user through.
OwnsOrderAnyone(order, user_id) == TRUE

\* order.user_id != session['user_id'] is the denial.
OwnsOrder(order, user_id) == order.user_id = user_id

\* GET /order_confirmation/<order_id>
order_confirmation(s, order_id) ==
    /\ pc[s] = "idle"
    /\ IF ~login_required(s)
       THEN response' = Resp(302, "login", 0, "Please log in to access this page.")
       ELSE IF order_id \notin DOMAIN orders
       THEN response' = Resp(404, "", 0, "")
       ELSE IF ~OwnsOrder(orders[order_id], session[s].user_id)
       THEN response' = Resp(302, "customer_menu", 0,
                             "You are not authorized to view this order")
       ELSE response' = Resp(200, "customer/order_confirmation.html", order_id, "")
    /\ UNCHANGED <<db, session, pc, req, reg>>

\* StatusAccepted without the membership test.
StatusAcceptedAlways(new_status) == TRUE

\* new_status in ['Pending', 'Completed', 'Cancelled']
StatusAccepted(new_status) == new_status \in {"Pending", "Completed", "Cancelled"}

\* POST /admin/update_order_status/<order_id>
update_order_status(s, order_id, new_status) ==
    /\ pc[s] = "idle"
    /\ IF ~admin_required(s)
       THEN /\ response' = Resp(302, "index", 0,
                                "You do not have permission to access this page.")
            /\ UNCHANGED orders
       ELSE IF order_id \notin DOMAIN orders
       THEN /\ response' = Resp(404, "", 0, "")
            /\ UNCHANGED orders
       ELSE IF StatusAccepted(new_status)
       THEN /\ orders' = [orders EXCEPT ![order_id].status = new_status]
            /\ response' = Resp(302, "admin_orders", 0, "Order status updated")
       ELSE /\ response' = Resp(302, "admin_orders", 0, "Invalid status")
            /\ UNCHANGED orders
    /\ UNCHANGED <<users, order_items, session, pc, req, reg>>

\* --------------------------------------------------------- specifications
\* Building a cart and checking it out.
Next ==
    \/ \E s \in Sessions, u \in Usernames, p \in Passwords : login(s, u, p)
    \/ \E s \in Sessions : logout(s)
    \/ \E s \in Sessions, i \in ItemIds : add_to_cart(s, i)
    \/ \E s \in Sessions, i \in 0..MaxIndex, a \in ActionInputs : update_cart(s, i, a)
    \/ \E s \in Sessions : checkout_order(s)
    \/ \E s \in Sessions : checkout_items(s)
    \/ \E s \in Sessions : checkout_fail(s)

Spec == InitShop /\ [][Next]_vars

\* The life of an order: placing it, viewing it, changing its status.
NextOrders ==
    \/ \E s \in Sessions, u \in Usernames, p \in Passwords : login(s, u, p)
    \/ \E s \in Sessions : logout(s)
    \/ \E s \in Sessions, i \in ItemIds : add_to_cart(s, i)
    \/ \E s \in Sessions : checkout_order(s)
    \/ \E s \in Sessions : checkout_items(s)
    \/ \E s \in Sessions : checkout_fail(s)
    \/ \E s \in Sessions, o \in OrderIds : order_confirmation(s, o)
    \/ \E s \in Sessions, o \in OrderIds, st \in StatusInputs : update_order_status(s, o, st)

SpecOrders == InitShop /\ [][NextOrders]_vars

\* Registration from a freshly seeded store.
NextRegister ==
    \/ \E r \in Registrations, u \in Usernames, e \in Emails, p \in Passwords :
          register_check_username(r, u, e, p)
    \/ \E r \in Registrations : register_check_email(r)
    \/ \E r \in Registrations : register_insert(r)

SpecRegister == InitBoot /\ [][NextRegister]_vars

\* The session cart alone: sequences of add_to_cart and update_cart requests.
NextCart ==
    \/ \E s \in Sessions, i \in ItemIds : add_to_cart(s, i)
    \/ \E s \in Sessions, i \in 0..MaxIndex, a \in ActionInputs : update_cart(s, i, a)

SpecCart == InitCart /\ [][NextCart]_vars

\* ------------------------------------------------------------------ claims
\* The status values of the data model.
OrderStatuses == {"Pending", "Completed", "Cancelled"}

RECURSIVE SumPriceQuantity(_, _)
\* The sum of price * quantity over the first n rows of a sequence.
SumPriceQuantity(rows, n) ==
    IF n = 0 THEN 0
    ELSE rows[n].price * rows[n].quantity + SumPriceQuantity(rows, n - 1)

\* The positions of the OrderItem rows of an order.
ItemRowsOf(order_id) == {k \in DOMAIN order_items : order_items[k].order_id = order_id}

RECURSIVE SumOverRows(_)
\* The sum of price * quantity over a set of OrderItem row positions.
SumOverRows(ks) ==
    IF ks = {} THEN 0
    ELSE LET k == CHOOSE x \in ks : TRUE
         IN order_items[k].price * order_items[k].quantity + SumOverRows(ks \ {k})

\* C4: under any interleaving of register requests no two stored users share
\* a username or an email, and a step that adds a user adds exactly one row
\* whose username and email no stored user held before the step.
C4_RegisterKeepsUsersUnique ==
    [][/\ \A i, j \in DOMAIN users' :
            i # j => /\ users'[i].username # users'[j].username
                     /\ users'[i].email # users'[j].email
       /\ users' # users =>
            /\ Len(users') = Len(users) + 1
            /\ SubSeq(users', 1, Len(users)) = users
            /\ \A i \in DOMAIN users :
                  /\ users[i].username # users'[Len(users')].username
                  /\ users[i].email # users'[Len(users')].email]_vars

\* C4 witness: two register requests passed both existence checks, one was
\* inserted and the store refused the other's insert.
C4_Witness ==
    /\ response.view = "IntegrityError"
    /\ Len(users) >= 2

\* C7: the session cart never holds two entries with the same item id;
\* add_to_cart for an item in the cart adds 1 to that entry's quantity and
\* changes nothing else, and for an item not in the cart appends one entry
\* of quantity 1.
C7_CartItemsDistinct ==
    [][\A s \in Sessions :
         LET cart == session[s].cart
             after == session'[s].cart
         IN /\ \A i, j \in DOMAIN after : i # j => after[i].id # after[j].id
            /\ \A item_id \in DOMAIN MenuItem :
                 (add_to_cart(s, item_id) /\ session[s].user_id # 0) =>
                     IF \E k \in DOMAIN cart : cart[k].id = item_id
                     THEN /\ Len(after) = Len(cart)
                          /\ \A k \in DOMAIN cart :
                                /\ after[k].id = cart[k].id
                                /\ after[k].price = cart[k].price
                                /\ after[k].quantity =
                                     IF cart[k].id = item_id THEN cart[k].quantity + 1
                                     ELSE cart[k].quantity
                     ELSE /\ Len(after) = Len(cart) + 1
                          /\ SubSeq(after, 1, Len(cart)) = cart
                          /\ after[Len(after)].id = item_id
                          /\ after[Len(after)].quantity = 1]_vars

\* C7 witness: a cart of two entries, the first of which was added twice.
C7_Witness ==
    \E s \in Sessions :
        /\ Len(session[s].cart) = 2
        /\ session[s].cart[1].quantity = 2
        /\ response.flash = "Added another item to your cart"

\* C8: every cart entry has quantity >= 1; a decrease of an entry of
\* quantity 1 deletes the entry, and an update_cart request with an index
\* outside the cart or an unrecognised action leaves the cart contents as
\* they were.
C8_CartQuantitiesPositive ==
    [][\A s \in Sessions :
         LET cart == session[s].cart
             after == session'[s].cart
         IN /\ \A k \in DOMAIN after : after[k].quantity >= 1
            /\ \A index \in 0..MaxIndex, action \in ActionInputs :
                 (update_cart(s, index, action) /\ session[s].user_id # 0) =>
                     /\ (index >= Len(cart) \/ action \notin {"increase", "decrease", "remove"})
                            => after = cart
                     /\ (index < Len(cart) /\ action = "decrease"
                            /\ cart[index + 1].quantity - 1 <= 0)
                            => /\ Len(after) = Len(cart) - 1
                               /\ \A k \in DOMAIN after :
                                     after[k] = IF k <= index THEN cart[k] ELSE cart[k + 1]]_vars

\* C8 witness: an update_cart request has removed the last entry of a cart.
C8_Witness ==
    \E s \in Sessions :
        /\ session[s].has_cart
        /\ session[s].cart = <<>>
        /\ response.flash = "Cart updated"

\* C1: a checkout of a non-empty cart by a logged-in user adds, at its first
\* commit, exactly one Order row (the session's user_id, status Pending,
\* total = sum of price * quantity over the cart) and nothing else; when it
\* completes it has added exactly one OrderItem row per cart entry, in cart
\* order, carrying the Order's id and the entry's item id, quantity and
\* price, has changed no Order row and no earlier OrderItem row, and leaves
\* the session without a cart.
C1_CheckoutPersistsCart ==
    [][\A s \in Sessions :
         LET cart == session[s].cart
         IN /\ (pc[s] = "idle" /\ pc'[s] = "checkout_items") =>
                  /\ session[s].user_id # 0
                  /\ cart # <<>>
                  /\ orders' = Append(orders,
                                      [user_id |-> session[s].user_id,
                                       total |-> SumPriceQuantity(cart, Len(cart)),
                                       status |-> "Pending"])
                  /\ req'[s].order_id = Len(orders')
                  /\ UNCHANGED <<users, order_items, session>>
            /\ (pc[s] = "checkout_items" /\ pc'[s] = "idle" /\ response'.code = 302) =>
                  /\ ~session'[s].has_cart
                  /\ session'[s].cart = <<>>
                  /\ UNCHANGED <<users, orders>>
                  /\ orders[req[s].order_id].user_id = session[s].user_id
                  /\ orders[req[s].order_id].total = SumPriceQuantity(cart, Len(cart))
                  /\ Len(order_items') = Len(order_items) + Len(cart)
                  /\ SubSeq(order_items', 1, Len(order_items)) = order_items
                  /\ \A k \in DOMAIN cart :
                        order_items'[Len(order_items) + k] =
                            [order_id |-> req[s].order_id, menu_item_id |-> cart[k].id,
                             quantity |-> cart[k].quantity, price |-> cart[k].price]]_vars

\* C1 witness: a checkout of a two-entry cart with a quantity above 1 has
\* completed.
C1_Witness ==
    /\ response.view = "order_confirmation"
    /\ response.order_id = Len(orders)
    /\ Cardinality(ItemRowsOf(response.order_id)) = 2
    /\ \E k \in ItemRowsOf(response.order_id) : order_items[k].quantity = 2
    /\ \A s \in Sessions : ~session[s].has_cart

\* C2 (as claimed): an Order whose status is Completed or Cancelled never
\* changes status again; the only status changes are Pending -> Completed
\* and Pending -> Cancelled.
C2_TerminalStatuses ==
    [][\A o \in DOMAIN orders :
         orders'[o].status # orders[o].status =>
             /\ orders[o].status = "Pending"
             /\ orders'[o].status \in {"Completed", "Cancelled"}]_vars

\* C3 (as claimed): in every state each stored Order's total equals the sum
\* of price * quantity over its OrderItem rows, and no step changes the
\* total of a stored Order.
C3_TotalMatchesItems ==
    [][/\ \A o \in DOMAIN orders' :
            orders'[o].total = SumOverRows(ItemRowsOf(o))'
       /\ \A o \in DOMAIN orders : orders'[o].total = orders[o].total]_vars

\* C5: an order_confirmation request for order o by a session logged in as
\* u renders the order exactly when a stored Order o has user_id = u; every
\* other response names no order; and the request changes nothing but the
\* response (with its flash message).
C5_OrderConfirmationOwnerOnly ==
    [][\A s \in Sessions, o \in OrderIds :
         (order_confirmation(s, o) /\ session[s].user_id # 0) =>
             /\ UNCHANGED <<users, orders, order_items, session, pc, req, reg>>
             /\ (response'.code = 200) <=>
                    (o \in DOMAIN orders /\ orders[o].user_id = session[s].user_id)
             /\ response'.code = 200 => response'.order_id = o
             /\ response'.code # 200 => response'.order_id = 0]_vars

\* C5 witness: a logged-in user asked for another user's order and was
\* refused.
C5_Witness ==
    /\ response.flash = "You are not authorized to view this order"
    /\ \E s \in Sessions, o \in DOMAIN orders :
          session[s].user_id # 0 /\ orders[o].user_id # session[s].user_id

\* C6: every stored Order's status is Pending, Completed or Cancelled; an
\* Order row is created with status Pending; and an update_order_status
\* request with any other status value, or none, leaves every Order row as
\* it was.
C6_StatusStaysValid ==
    [][/\ \A o \in DOMAIN orders' : orders'[o].status \in OrderStatuses
       /\ \A o \in DOMAIN orders' \ DOMAIN orders : orders'[o].status = "Pending"
       /\ \/ orders' = orders
          \/ \A s \in Sessions, o \in OrderIds, st \in StatusInputs \ OrderStatuses :
                ~update_order_status(s, o, st)]_vars

\* C6 witness: the admin sent an invalid status for a stored order.
C6_Witness ==
    /\ response.flash = "Invalid status"
    /\ \E s \in Sessions : session[s].is_admin

\* C9: a checkout request on a session with no cart or an empty cart leaves
\* the store (users, orders, order items) as it was and starts no second
\* commit.
C9_EmptyCartCheckoutCreatesNothing ==
    [][\A s \in Sessions :
         (checkout_order(s) /\ session[s].cart = <<>>) =>
             /\ UNCHANGED <<users, orders, order_items>>
             /\ pc'[s] = "idle"]_vars

\* C9 witness: a checkout on an empty cart was turned away after an order
\* had been placed in this run.
C9_Witness ==
    /\ response.flash = "Your cart is empty"
    /\ Len(orders) = 2
    /\ \E s \in Sessions : session[s].user_id # 0 /\ ~session[s].has_cart

\* C10 (as claimed): every entry of a session cart was added while the
\* session's user_id was the one it holds now.
C10_CartEntriesBelongToUser ==
    \A s \in Sessions :
        \A k \in DOMAIN session[s].cart :
            session[s].cart[k].added_by = session[s].user_id

\* C10 (as claimed, the consequence): no completed checkout writes an Order
\* for one user from cart entries another user added.
C10_NoOrderFromOthersEntries ==
    [][\A s \in Sessions :
         (pc[s] = "idle" /\ pc'[s] = "checkout_items") =>
             \A k \in DOMAIN session[s].cart :
                 session[s].cart[k].added_by = orders'[Len(orders')].user_id]_vars

====
